---- MODULE Spec2Model ----
(***************************************************************************)
(* Model of the proveedores_app frontend: the route guard (App.tsx), the   *)
(* login and register pages, the supplier dashboard in its two variants    *)
(* (Dashboard.tsx, the one with supplier id and conciliations, called      *)
(* "legacy" here, and unnamed/part_000, the later one) and the axios       *)
(* client wrapper (services/api.ts).                                       *)
(*                                                                         *)
(* One browser session is modelled.  Every page mount gets a fresh         *)
(* instance number; a request in flight remembers the instance that        *)
(* issued it.  React drops a state update of an unmounted component, so a  *)
(* continuation changes component state only when its instance is the one  *)
(* mounted; everything else a continuation does (localStorage, navigate,   *)
(* follow-up requests) happens regardless.                                 *)
(*                                                                         *)
(* Money is kept in cents (an integer), so 123.4 is 12340.                 *)
(***************************************************************************)
EXTENDS Integers, Sequences, FiniteSets, TLC

VARIABLES
    variant,    \* "legacy" (pages/Dashboard.tsx) or "later" (unnamed/part_000)
    token,      \* localStorage item 'token'; Null when absent
    view,       \* the page the router renders: "login", "register", "dashboard"
    inst,       \* instance number of the mounted page
    dash,       \* useState cells of DashboardPage
    loginPg,    \* useState cells of LoginPage
    regPg,      \* useState cells of RegisterPage
    inflight,   \* the requests sent and not yet settled
    subs        \* history: one record per accepted report submission

vars == <<variant, token, view, inst, dash, loginPg, regPg, inflight, subs>>

Null == "null"

----------------------------------------------------------------------------
(* Bounds of the model. *)

MaxMounts  == 3   \* page mounts of a session (instance numbers)
MaxSubmits == 2   \* report submissions of a session that pass validation
MaxSaves   == 1   \* conciliation saves in progress at a time
MaxRows    == 3   \* rows of a report response (SpecReport)

----------------------------------------------------------------------------
(* Texts shown to the user. *)

MsgValidationLegacy == "Debe completar proveedor y fechas."
MsgValidationLater  == "Debe completar las fechas."
MsgSalesError       == "Error al obtener ventas."
MsgSaveError        == "Error al guardar conciliación."
MsgLoginError       == "Credenciales inválidas."
MsgRegisterNoId     == "Debe indicar el ID de proveedor"
MsgRegisterError    == "No se pudo crear la cuenta. Verifica los datos e inténtalo de nuevo."

----------------------------------------------------------------------------
(* JavaScript truthiness of the values the code tests with `!x` / `x &&`.  *)

\* A string cell: null, undefined and '' are falsy.
Truthy(x) == x # Null /\ x # ""

\* A numeric cell (number | '' | null) holds NoNumber when it holds no number.
NoNumber == -1

\* `!n` for a numeric cell: '', null, undefined and 0 are falsy.
TruthyNum(n) == n # NoNumber /\ n # 0

----------------------------------------------------------------------------
(* services/api.ts: the request interceptor.  The result is the value of   *)
(* the Authorization header of the outgoing request, Null when the header  *)
(* is not set.                                                             *)

\* An interceptor that sets no header.
InterceptorWithoutHeader(tok) == Null

Interceptor(tok) == IF Truthy(tok) THEN "Bearer " \o tok ELSE Null

\* A request as it leaves the client: `op` names the call site that awaits
\* it, `by` the page instance that issued it, `sub` the report submission (or
\* the save) it belongs to, 0 when none, `params` what the call passes;
\* `tok` is the content of localStorage when the request is sent.
Request(op, url, by, sub, params, tok) ==
    [op |-> op, url |-> url, by |-> by, sub |-> sub, params |-> params,
     Authorization |-> Interceptor(tok)]

NoParams == <<>>

login(by, tok)          == Request("login", "/auth/login", by, 0, NoParams, tok)
register(by, tok)       == Request("register", "/auth/register", by, 0, NoParams, tok)
getCurrentUser(by, tok) == Request("me", "/me", by, 0, NoParams, tok)
listConciliations(op, by, sub, tok) ==
    Request(op, "/conciliations", by, sub, NoParams, tok)
getInventory(by, sub, tok) == Request("inventory", "/inventory", by, sub, NoParams, tok)
fetchSales(by, sub, dateFrom, dateTo, supplierId, tok) ==
    Request("sales", "/sales", by, sub, <<dateFrom, dateTo, supplierId>>, tok)
fetchSalesPeriod(by, sub, dateFrom, dateTo, tok) ==
    Request("sales", "/sales/period", by, sub, <<dateFrom, dateTo>>, tok)
createConciliation(by, n, saleId, tok) ==
    Request("createConciliation", "/conciliations", by, n, <<saleId>>, tok)

----------------------------------------------------------------------------
(* Array.prototype.sort with a comparator: a stable sort.  Each element is *)
(* inserted after the elements that do not compare greater than it.        *)

\* The comparator with its operands exchanged.
CompareLegacyAscending(a, b) == a.quantitySales - b.quantitySales

\* Dashboard.tsx:90  (a, b) => b.quantitySales - a.quantitySales
CompareLegacy(a, b) == b.quantitySales - a.quantitySales

\* part_000:98  (a, b) => b.quantity - a.quantity
CompareLater(a, b) == b.quantity - a.quantity

InsertLegacy(x, s) ==
    LET k == Cardinality({i \in 1..Len(s) : CompareLegacy(s[i], x) <= 0})
    IN  SubSeq(s, 1, k) \o <<x>> \o SubSeq(s, k + 1, Len(s))

InsertLater(x, s) ==
    LET k == Cardinality({i \in 1..Len(s) : CompareLater(s[i], x) <= 0})
    IN  SubSeq(s, 1, k) \o <<x>> \o SubSeq(s, k + 1, Len(s))

RECURSIVE SortLegacy(_)
SortLegacy(s) ==
    IF s = <<>> THEN <<>>
    ELSE InsertLegacy(s[Len(s)], SortLegacy(SubSeq(s, 1, Len(s) - 1)))

RECURSIVE SortLater(_)
SortLater(s) ==
    IF s = <<>> THEN <<>>
    ELSE InsertLater(s[Len(s)], SortLater(SubSeq(s, 1, Len(s) - 1)))

\* part_000:90-96  the response items mapped to ProductRow
MapItems(data) ==
    [i \in 1..Len(data) |->
        [productId |-> data[i].product_id, quantity |-> data[i].quantity]]

----------------------------------------------------------------------------
(* Number.prototype.toFixed(2) of the quotient num/den of two integers,    *)
(* num in cents and den > 0: the sign, the integer part, a point and two   *)
(* digits, as the sequence of its characters.  Of the two hundredths       *)
(* equally close, the larger magnitude is taken.                           *)

Digit(d) == CASE d = 0 -> "0" [] d = 1 -> "1" [] d = 2 -> "2" [] d = 3 -> "3"
              [] d = 4 -> "4" [] d = 5 -> "5" [] d = 6 -> "6" [] d = 7 -> "7"
              [] d = 8 -> "8" [] d = 9 -> "9"

RECURSIVE Digits(_)
Digits(n) == IF n < 10 THEN <<Digit(n)>> ELSE Digits(n \div 10) \o <<Digit(n % 10)>>

Abs(n) == IF n < 0 THEN -n ELSE n

\* Of toFixed(2), the digits cut off instead of rounded.
ToFixed2Truncating(num, den) ==
    LET n == (Abs(num)) \div den
    IN  (IF num < 0 THEN <<"-">> ELSE <<>>)
        \o Digits(n \div 100) \o <<".">> \o <<Digit((n % 100) \div 10), Digit(n % 10)>>

ToFixed2(num, den) ==
    LET n == (2 * Abs(num) + den) \div (2 * den)
    IN  (IF num < 0 THEN <<"-">> ELSE <<>>)
        \o Digits(n \div 100) \o <<".">> \o <<Digit((n % 100) \div 10), Digit(n % 10)>>

----------------------------------------------------------------------------
(* Component state after mounting (the useState initial values).           *)

\* `me` is null until the profile arrives; NoUser stands for null.
NoUser == [id |-> 0, supplierIdTecopos |-> NoNumber]

DashboardPage ==
    [supplierId |-> NoNumber, dateFrom |-> "", dateTo |-> "", loading |-> FALSE,
     saleId |-> NoNumber, products |-> <<>>, totalSales |-> 0, totalUnits |-> 0,
     inventory |-> <<>>, conciliations |-> <<>>, me |-> NoUser, error |-> ""]

LoginPage == [error |-> "", loading |-> FALSE]

RegisterPage == [supplierId |-> "", error |-> "", loading |-> FALSE]

----------------------------------------------------------------------------
(* App.tsx: the routes.                                                    *)

\* RequireAuth without its token test.
RequireAuthOpen(tok, children) == children

\* RequireAuth: without a token the element is <Navigate to="/login">.
RequireAuth(tok, children) == IF ~Truthy(tok) THEN "login" ELSE children

\* The page <Routes> ends up rendering for a location.
Routes(path, tok) ==
    CASE path = "/login"    -> "login"
      [] path = "/register" -> "register"
      [] path = "/"         -> RequireAuth(tok, "dashboard")
      [] OTHER              -> RequireAuth(tok, "dashboard")   \* "*" -> "/"

\* The two mount effects of DashboardPage: the profile and the conciliations.
MountEffects(page, by, tok) ==
    IF page = "dashboard"
    THEN {getCurrentUser(by, tok), listConciliations("conciliations", by, 0, tok)}
    ELSE {}

\* A location change.  The page already shown stays mounted with its state;
\* any other page is mounted afresh and the one shown is unmounted.  `rest`
\* are the requests that stay in flight.
Navigate(path, tok, rest) ==
    LET page == Routes(path, tok)
    IN  IF page = view
        THEN /\ UNCHANGED <<view, inst, dash, loginPg, regPg>>
             /\ inflight' = rest
        ELSE /\ view' = page
             /\ inst' = inst + 1
             /\ dash' = DashboardPage
             /\ loginPg' = LoginPage
             /\ regPg' = RegisterPage
             /\ inflight' = rest \cup MountEffects(page, inst + 1, tok)

SaveOps == {"createConciliation", "updated"}

\* The mounts still to come at most: every login, register and profile request
\* in flight may end in a navigation, and a dashboard sends a profile request.
PendingMounts == Cardinality({r \in inflight : r.op \in {"login", "register", "me"}})

\* The later page sends fewer requests; its sessions go one mount further, so
\* that a second dashboard is mounted while requests of the first are in flight.
MountLimit == IF variant = "later" THEN MaxMounts + 1 ELSE MaxMounts

CanMount(page) ==
    inst + PendingMounts + (IF page = "dashboard" THEN 2 ELSE 1) <= MountLimit

Paths == {"/", "/login", "/register", "/x"}
Variants == {"legacy", "later"}
Tokens == {"tokA", "tokB"}

\* The application is opened at some location, with whatever an earlier
\* session left in localStorage.
Init ==
    /\ variant \in Variants
    /\ token \in {Null, "tokA"}
    /\ \E path \in Paths :
         /\ view = Routes(path, token)
         /\ inflight = MountEffects(Routes(path, token), 1, token)
    /\ inst = 1
    /\ dash = DashboardPage
    /\ loginPg = LoginPage
    /\ regPg = RegisterPage
    /\ subs = <<>>

\* The user changes the location (history, address bar within the session,
\* the link of the login page to /register).
GoTo(path) ==
    /\ Routes(path, token) # view
    /\ CanMount(Routes(path, token))
    /\ Navigate(path, token, inflight)
    /\ UNCHANGED <<variant, token, subs>>

\* Whether the component that awaits request r is still the mounted one.
Mounted(r) == r.by = inst

----------------------------------------------------------------------------
(* pages/Login: LoginPage.handleSubmit (Dashboard.tsx:281-294).            *)

LoginSubmit ==
    /\ view = "login"
    /\ ~loginPg.loading                      \* the submit button is disabled
    /\ CanMount("dashboard")
    /\ loginPg' = [loginPg EXCEPT !.error = "", !.loading = TRUE]
    /\ inflight' = inflight \cup {login(inst, token)}
    /\ UNCHANGED <<variant, token, view, inst, dash, regPg, subs>>

\* The login request resolves: the token is stored, then navigate('/').
LoginResolved(r, access_token) ==
    /\ r.op = "login"
    /\ token' = access_token
    /\ Navigate("/", access_token, inflight \ {r})
    /\ UNCHANGED <<variant, subs>>

\* The login request rejects: the error text is set.
LoginRejected(r) ==
    /\ r.op = "login"
    /\ loginPg' = IF Mounted(r)
                  THEN [loginPg EXCEPT !.error = MsgLoginError, !.loading = FALSE]
                  ELSE loginPg
    /\ inflight' = inflight \ {r}
    /\ UNCHANGED <<variant, token, view, inst, dash, regPg, subs>>

----------------------------------------------------------------------------
(* pages/Register.tsx: RegisterPage.handleSubmit.  The earlier page        *)
(* (lines 19-36) asks for a supplier id and goes with the legacy           *)
(* dashboard, the later one (lines 103-116) does not.                      *)

RegSupplierIds == {"", "7"}

RegSetSupplierId(v) ==
    /\ view = "register"
    /\ variant = "legacy"
    /\ v # regPg.supplierId
    /\ regPg' = [regPg EXCEPT !.supplierId = v]
    /\ UNCHANGED <<variant, token, view, inst, dash, loginPg, inflight, subs>>

RegisterSubmit ==
    /\ view = "register"
    /\ ~regPg.loading
    /\ IF variant = "legacy" /\ ~Truthy(regPg.supplierId)
       THEN /\ regPg' = [regPg EXCEPT !.error = MsgRegisterNoId]
            /\ UNCHANGED inflight
       ELSE /\ CanMount("login")
            /\ regPg' = [regPg EXCEPT !.error = "", !.loading = TRUE]
            /\ inflight' = inflight \cup {register(inst, token)}
    /\ UNCHANGED <<variant, token, view, inst, dash, loginPg, subs>>

RegisterResolved(r) ==
    /\ r.op = "register"
    /\ Navigate("/login", token, inflight \ {r})
    /\ UNCHANGED <<variant, token, subs>>

RegisterRejected(r) ==
    /\ r.op = "register"
    /\ regPg' = IF Mounted(r)
                THEN [regPg EXCEPT !.error = MsgRegisterError, !.loading = FALSE]
                ELSE regPg
    /\ inflight' = inflight \ {r}
    /\ UNCHANGED <<variant, token, view, inst, dash, loginPg, subs>>

----------------------------------------------------------------------------
(* DashboardPage: the form fields.                                         *)

Dates == {"", "2025-10-01T00:00"}
SupplierInputs == {NoNumber, 0, 5}      \* '', "0" and "5" typed into the field

SetDateFrom(v) ==
    /\ view = "dashboard"
    /\ v # dash.dateFrom
    /\ dash' = [dash EXCEPT !.dateFrom = v]
    /\ UNCHANGED <<variant, token, view, inst, loginPg, regPg, inflight, subs>>

SetDateTo(v) ==
    /\ view = "dashboard"
    /\ v # dash.dateTo
    /\ dash' = [dash EXCEPT !.dateTo = v]
    /\ UNCHANGED <<variant, token, view, inst, loginPg, regPg, inflight, subs>>

\* Dashboard.tsx:120-126: the supplier field, disabled once the profile is in.
SetSupplierId(v) ==
    /\ view = "dashboard"
    /\ variant = "legacy"
    /\ dash.me = NoUser
    /\ v # dash.supplierId
    /\ dash' = [dash EXCEPT !.supplierId = v]
    /\ UNCHANGED <<variant, token, view, inst, loginPg, regPg, inflight, subs>>

----------------------------------------------------------------------------
(* DashboardPage: the profile effect.                                      *)

Users == {[id |-> 1, supplierIdTecopos |-> 7], [id |-> 1, supplierIdTecopos |-> NoNumber]}

\* An effect that stores the profile and leaves the input as typed.
AfterProfileKeepingInput(d, user) == [d EXCEPT !.me = user]

AfterProfile(d, user) ==
    IF variant = "legacy"
    THEN [d EXCEPT !.me = user, !.supplierId = user.supplierIdTecopos]
    ELSE [d EXCEPT !.me = user]

ProfileResolved(r, user) ==
    /\ r.op = "me"
    /\ dash' = IF Mounted(r) THEN AfterProfile(dash, user) ELSE dash
    /\ inflight' = inflight \ {r}
    /\ UNCHANGED <<variant, token, view, inst, loginPg, regPg, subs>>

\* A catch that stays on the page.
ProfileRejectedStaying(r) ==
    /\ r.op = "me"
    /\ inflight' = inflight \ {r}
    /\ UNCHANGED <<variant, token, view, inst, dash, loginPg, regPg, subs>>

\* A catch that also removes the token.
ProfileRejectedClearingToken(r) ==
    /\ r.op = "me"
    /\ token' = Null
    /\ Navigate("/login", Null, inflight \ {r})
    /\ UNCHANGED <<variant, subs>>

\* The catch of the profile effect: navigate('/login').  The token stays.
ProfileRejected(r) ==
    /\ r.op = "me"
    /\ Navigate("/login", token, inflight \ {r})
    /\ UNCHANGED <<variant, token, subs>>

----------------------------------------------------------------------------
(* DashboardPage: the conciliations effect (on mount; in the legacy page   *)
(* also whenever saleId changes).                                          *)

ConciliationLists == {<<>>, <<[id |-> 1, revenue |-> 100, sales_qty |-> 2]>>}

ConciliationsResolved(r, data) ==
    /\ r.op = "conciliations"
    /\ dash' = IF Mounted(r) THEN [dash EXCEPT !.conciliations = data] ELSE dash
    /\ inflight' = inflight \ {r}
    /\ UNCHANGED <<variant, token, view, inst, loginPg, regPg, subs>>

\* A catch that shows an error text.
ConciliationsRejectedWithText(r) ==
    /\ r.op = "conciliations"
    /\ dash' = IF Mounted(r) THEN [dash EXCEPT !.error = MsgSaveError] ELSE dash
    /\ inflight' = inflight \ {r}
    /\ UNCHANGED <<variant, token, view, inst, loginPg, regPg, subs>>

\* console.error(err): nothing of the view changes.
ConciliationsRejected(r) ==
    /\ r.op = "conciliations"
    /\ inflight' = inflight \ {r}
    /\ UNCHANGED <<variant, token, view, inst, dash, loginPg, regPg, subs>>

----------------------------------------------------------------------------
(* DashboardPage.handleFetchSales.                                         *)

\* The history of the report submissions: what each one sent so far, whether
\* its report request resolved, and whether the handler has returned.
Submission ==
    [report |-> 0, inventory |-> 0, reportOk |-> FALSE, returned |-> FALSE]

CountOp(sent, op, n) == Cardinality({r \in sent : r.op = op /\ r.sub = n})

Tally(h, sent) ==
    [n \in 1..Len(h) |->
        [h[n] EXCEPT !.report = @ + CountOp(sent, "sales", n),
                     !.inventory = @ + CountOp(sent, "inventory", n)]]

\* The guard without its test of dateTo.
InvalidIgnoringDateTo(d) ==
    \/ ~Truthy(d.dateFrom)
    \/ variant = "legacy" /\ ~TruthyNum(d.supplierId)

\* The guard of the handler (Dashboard.tsx:80, part_000:81).
Invalid(d) ==
    \/ ~Truthy(d.dateFrom)
    \/ ~Truthy(d.dateTo)
    \/ variant = "legacy" /\ ~TruthyNum(d.supplierId)

ValidationMessage == IF variant = "legacy" THEN MsgValidationLegacy ELSE MsgValidationLater

\* A handler that asks for the inventory without awaiting the report.
SalesRequestWithInventory(d, n) ==
    IF variant = "legacy"
    THEN {fetchSales(inst, n, d.dateFrom, d.dateTo, d.supplierId, token),
          getInventory(inst, n, token)}
    ELSE {fetchSalesPeriod(inst, n, d.dateFrom, d.dateTo, token),
          getInventory(inst, n, token)}

\* What the handler sends before its first await.
SalesRequest(d, n) ==
    IF variant = "legacy"
    THEN {fetchSales(inst, n, d.dateFrom, d.dateTo, d.supplierId, token)}
    ELSE {fetchSalesPeriod(inst, n, d.dateFrom, d.dateTo, token)}

\* A submit button that is never disabled.
SubmitDisabledNever == FALSE

\* The submit button is disabled while loading (Dashboard.tsx:142).
SubmitDisabled == dash.loading

handleFetchSales ==
    IF Invalid(dash)
    THEN /\ dash' = [dash EXCEPT !.error = ValidationMessage]
         /\ UNCHANGED <<inflight, subs>>
    ELSE /\ Len(subs) < MaxSubmits
         /\ dash' = [dash EXCEPT !.error = "", !.loading = TRUE]
         /\ inflight' = inflight \cup SalesRequest(dash, Len(subs) + 1)
         /\ subs' = Tally(Append(subs, Submission), SalesRequest(dash, Len(subs) + 1))

\* A click on "Consultar ventas".
ClickFetchSales ==
    /\ view = "dashboard"
    /\ ~SubmitDisabled
    /\ handleFetchSales
    /\ UNCHANGED <<variant, token, view, inst, loginPg, regPg>>

\* The state updates after `await fetchSales(...)`.
AfterSales(d, response) ==
    IF variant = "legacy"
    THEN [d EXCEPT !.saleId = response.saleId,
                   !.products = SortLegacy(response.products),
                   !.totalSales = response.totalSales,
                   !.totalUnits = response.totalUnits]
    ELSE [d EXCEPT !.products = SortLater(MapItems(response.data)),
                   !.totalSales = response.total_sales,
                   !.totalUnits = response.total_units]

\* An effect that runs on mount only.
SaleIdEffectNever(r, response) == {}

\* The conciliations effect runs again when the render sees another saleId
\* (Dashboard.tsx:77, deps [saleId]; part_000:78 has deps []).
SaleIdEffect(r, response) ==
    IF variant = "legacy" /\ Mounted(r) /\ response.saleId # dash.saleId
    THEN {listConciliations("conciliations", r.by, r.sub, token)}
    ELSE {}

\* What the continuation sends after the state updates.
InventoryRequest(r) == {getInventory(r.by, r.sub, token)}

\* The report request resolves: the state is updated, then the inventory is
\* requested.
SalesResolved(r, response) ==
    /\ r.op = "sales"
    /\ dash' = IF Mounted(r) THEN AfterSales(dash, response) ELSE dash
    /\ inflight' = (inflight \ {r}) \cup InventoryRequest(r) \cup SaleIdEffect(r, response)
    /\ subs' = Tally([subs EXCEPT ![r.sub].reportOk = TRUE], InventoryRequest(r))
    /\ UNCHANGED <<variant, token, view, inst, loginPg, regPg>>

\* A handler without its finally.
AfterFailureLoading(d) == [d EXCEPT !.error = MsgSalesError]

\* A catch that also empties the report.
AfterFailureClearing(d) ==
    [d EXCEPT !.error = MsgSalesError, !.loading = FALSE, !.products = <<>>,
              !.totalSales = 0, !.totalUnits = 0]

\* catch and finally of handleFetchSales.
AfterFailure(d) == [d EXCEPT !.error = MsgSalesError, !.loading = FALSE]

Rejected(r) ==
    /\ dash' = IF Mounted(r) THEN AfterFailure(dash) ELSE dash
    /\ inflight' = inflight \ {r}
    /\ subs' = [subs EXCEPT ![r.sub].returned = TRUE]
    /\ UNCHANGED <<variant, token, view, inst, loginPg, regPg>>

SalesRejected(r) == r.op = "sales" /\ Rejected(r)

InventoryRejected(r) == r.op = "inventory" /\ Rejected(r)

InventoryLists == {<<>>, <<[product_id |-> 1, total_quantity |-> 4]>>}

InventoryResolved(r, inv) ==
    /\ r.op = "inventory"
    /\ dash' = IF Mounted(r) THEN [dash EXCEPT !.inventory = inv, !.loading = FALSE] ELSE dash
    /\ inflight' = inflight \ {r}
    /\ subs' = [subs EXCEPT ![r.sub].returned = TRUE]
    /\ UNCHANGED <<variant, token, view, inst, loginPg, regPg>>

----------------------------------------------------------------------------
(* DashboardPage.handleSaveConciliation.                                   *)

\* The saves in progress are numbered to tell them apart.
FreeSaves == {k \in 1..MaxSaves : \A r \in inflight : r.op \in SaveOps => r.sub # k}

\* Dashboard.tsx:104-113.  The button is rendered only with a saleId
\* (line 145) and is not disabled while a save is in progress.
\* A handler that sends its request whatever the page and the saleId.
handleSaveConciliationUnguarded ==
    /\ FreeSaves # {}
    /\ LET k == CHOOSE k \in FreeSaves : \A j \in FreeSaves : k <= j
       IN  inflight' = inflight \cup {createConciliation(inst, k, dash.saleId, token)}
    /\ UNCHANGED dash

\* Dashboard.tsx:104-113 up to its first await; part_000:111-113 has an
\* empty body.
handleSaveConciliation ==
    IF variant = "later" \/ ~TruthyNum(dash.saleId)
    THEN UNCHANGED <<dash, inflight>>
    ELSE /\ FreeSaves # {}
         /\ LET k == CHOOSE k \in FreeSaves : \A j \in FreeSaves : k <= j
            IN  inflight' = inflight \cup {createConciliation(inst, k, dash.saleId, token)}
         /\ UNCHANGED dash

\* The button "Guardar conciliación" is rendered with a saleId
\* (Dashboard.tsx:145-149); the later page renders no control for its handler.
SaveShown == variant = "legacy" /\ TruthyNum(dash.saleId)

\* The handler is called: by a click on the button in the earlier page, by
\* whatever is wired to it in the later one.
ClickSaveConciliation ==
    /\ view = "dashboard"
    /\ variant = "later" \/ SaveShown
    /\ handleSaveConciliation
    /\ UNCHANGED <<variant, token, view, inst, loginPg, regPg, subs>>

CreateResolved(r) ==
    /\ r.op = "createConciliation"
    /\ inflight' = (inflight \ {r}) \cup {listConciliations("updated", r.by, r.sub, token)}
    /\ UNCHANGED <<variant, token, view, inst, dash, loginPg, regPg, subs>>

UpdatedResolved(r, data) ==
    /\ r.op = "updated"
    /\ dash' = IF Mounted(r) THEN [dash EXCEPT !.conciliations = data] ELSE dash
    /\ inflight' = inflight \ {r}
    /\ UNCHANGED <<variant, token, view, inst, loginPg, regPg, subs>>

\* The catch of handleSaveConciliation, for either of its two requests.
SaveRejected(r) ==
    /\ r.op \in SaveOps
    /\ dash' = IF Mounted(r) THEN [dash EXCEPT !.error = MsgSaveError] ELSE dash
    /\ inflight' = inflight \ {r}
    /\ UNCHANGED <<variant, token, view, inst, loginPg, regPg, subs>>

----------------------------------------------------------------------------
(* The report responses of the backend.                                    *)

LegacyRow(id, q) == [productId |-> id, quantitySales |-> q]
LaterItem(id, q) == [product_id |-> id, quantity |-> q]

\* The responses the session is run with.
SalesResponses ==
    IF variant = "legacy"
    THEN {[saleId |-> 1, products |-> <<LegacyRow(1, 5), LegacyRow(2, 9), LegacyRow(3, 1)>>,
           totalSales |-> 12340, totalUnits |-> 10],
          [saleId |-> 2, products |-> <<>>, totalSales |-> 0, totalUnits |-> 0]}
    ELSE {[data |-> <<LaterItem(1, 5), LaterItem(2, 9), LaterItem(3, 1)>>,
           total_sales |-> 12340, total_units |-> 10],
          [data |-> <<>>, total_sales |-> 0, total_units |-> 0]}

----------------------------------------------------------------------------
(* The session.                                                            *)

Settle(r) ==
    \/ \E t \in Tokens : LoginResolved(r, t)
    \/ LoginRejected(r)
    \/ RegisterResolved(r)
    \/ RegisterRejected(r)
    \/ \E user \in Users : ProfileResolved(r, user)
    \/ ProfileRejected(r)
    \/ \E data \in ConciliationLists : ConciliationsResolved(r, data)
    \/ ConciliationsRejected(r)
    \/ \E response \in SalesResponses : SalesResolved(r, response)
    \/ SalesRejected(r)
    \/ \E inv \in InventoryLists : InventoryResolved(r, inv)
    \/ InventoryRejected(r)
    \/ CreateResolved(r)
    \/ \E data \in ConciliationLists : UpdatedResolved(r, data)
    \/ SaveRejected(r)

Next ==
    \/ \E path \in Paths : GoTo(path)
    \/ LoginSubmit
    \/ \E v \in RegSupplierIds : RegSetSupplierId(v)
    \/ RegisterSubmit
    \/ \E v \in Dates : SetDateFrom(v)
    \/ \E v \in Dates : SetDateTo(v)
    \/ \E v \in SupplierInputs : SetSupplierId(v)
    \/ ClickFetchSales
    \/ ClickSaveConciliation
    \/ \E r \in inflight : Settle(r)

Spec == Init /\ [][Next]_vars

----------------------------------------------------------------------------
(* DashboardPage: what the summary cards show.                             *)

\* Dashboard.tsx:152 renders the cards with a saleId, part_000:141 with rows.
SummaryShown(d) == IF variant = "legacy" THEN TruthyNum(d.saleId) ELSE Len(d.products) > 0

\* "Precio promedio" (Dashboard.tsx:168, part_000:157).
AveragePrice(d) ==
    IF d.totalUnits > 0 THEN ToFixed2(d.totalSales, d.totalUnits) ELSE <<"0">>

----------------------------------------------------------------------------
(* The report view alone, with one submission under way and the report     *)
(* responses drawn from wider sets: every list of up to MaxRows rows, and  *)
(* a range of totals.                                                      *)

Quantities == {1, 5, 9}
SalesTotals == {0, 1, 2000, 12340}      \* cents
UnitTotals == {0, 1, 3, 10}

QuantityLists == UNION {[1..n -> Quantities] : n \in 0..MaxRows}

LegacyRows(qs) == [i \in 1..Len(qs) |-> LegacyRow(i, qs[i])]
LaterItems(qs) == [i \in 1..Len(qs) |-> LaterItem(i, qs[i])]

ReportResponses ==
    IF variant = "legacy"
    THEN {[saleId |-> 1, products |-> LegacyRows(qs), totalSales |-> 12340, totalUnits |-> 10]
             : qs \in QuantityLists}
         \cup {[saleId |-> 2, products |-> LegacyRows(<<5, 9, 1>>), totalSales |-> t, totalUnits |-> u]
             : t \in SalesTotals, u \in UnitTotals}
    ELSE {[data |-> LaterItems(qs), total_sales |-> 12340, total_units |-> 10]
             : qs \in QuantityLists}
         \cup {[data |-> LaterItems(<<5, 9, 1>>), total_sales |-> t, total_units |-> u]
             : t \in SalesTotals, u \in UnitTotals}

\* The dashboard with the profile in, both dates typed and the button clicked.
InitReport ==
    /\ variant \in Variants
    /\ token = "tokA"
    /\ view = "dashboard"
    /\ inst = 1
    /\ dash = [AfterProfile(DashboardPage, [id |-> 1, supplierIdTecopos |-> 7])
                 EXCEPT !.dateFrom = "2025-10-01T00:00", !.dateTo = "2025-10-01T00:00",
                        !.loading = TRUE]
    /\ loginPg = LoginPage
    /\ regPg = RegisterPage
    /\ inflight = SalesRequest(dash, 1)
    /\ subs = Tally(<<Submission>>, inflight)

NextReport ==
    \E r \in inflight :
        \/ \E response \in ReportResponses : SalesResolved(r, response)
        \/ SalesRejected(r)
        \/ \E inv \in InventoryLists : InventoryResolved(r, inv)
        \/ InventoryRejected(r)
        \/ \E data \in ConciliationLists : ConciliationsResolved(r, data)
        \/ ConciliationsRejected(r)

SpecReport == InitReport /\ [][NextReport]_vars

----------------------------------------------------------------------------
(* The form of a mounted dashboard with requests that are answered: a      *)
(* report or inventory request it awaits resolves or rejects.              *)

AnswerReport == \E r \in inflight : r.op \in {"sales", "inventory"} /\ Mounted(r) /\ Settle(r)

\* The dashboard is mounted and stays; its form is filled in and submitted.
InitSubmit ==
    /\ variant \in Variants
    /\ token = "tokA"
    /\ view = "dashboard"
    /\ inst = 1
    /\ dash = DashboardPage
    /\ loginPg = LoginPage
    /\ regPg = RegisterPage
    /\ inflight = MountEffects("dashboard", 1, token)
    /\ subs = <<>>

NextSubmit ==
    \/ \E v \in Dates : SetDateFrom(v)
    \/ \E v \in Dates : SetDateTo(v)
    \/ ClickFetchSales
    \/ \E r \in inflight :
          \/ \E user \in Users : ProfileResolved(r, user)
          \/ \E data \in ConciliationLists : ConciliationsResolved(r, data)
          \/ ConciliationsRejected(r)
          \/ \E response \in SalesResponses : SalesResolved(r, response)
          \/ SalesRejected(r)
          \/ \E inv \in InventoryLists : InventoryResolved(r, inv)
          \/ InventoryRejected(r)

SpecSubmit == InitSubmit /\ [][NextSubmit]_vars /\ WF_vars(AnswerReport)

----------------------------------------------------------------------------
(* Properties.                                                             *)

DashboardOps == {"me", "conciliations", "sales", "inventory", "createConciliation", "updated"}

\* C1: while localStorage holds no token, the route "/" leads to the login
\* page, the dashboard is not rendered and no request of the dashboard (its
\* mount effects, its handlers) has been sent.
C1_NoTokenNoDashboard ==
    ~Truthy(token) =>
        /\ Routes("/", token) = "login"
        /\ view # "dashboard"
        /\ \A r \in inflight : r.op \notin DashboardOps

\* The location was changed with no token stored and the login page came up.
C1_Witness == ~Truthy(token) /\ view = "login" /\ inst > 1

\* C2: a click on the submit button with dateFrom or dateTo empty (in the
\* legacy page also with no supplier id) sends nothing, sets the error to the
\* validation text and leaves every other cell of the view as it was.
C2_InvalidSubmission ==
    [][(/\ ClickFetchSales
        /\ \/ dash.dateFrom = ""
           \/ dash.dateTo = ""
           \/ variant = "legacy" /\ dash.supplierId = NoNumber)
       => /\ inflight' = inflight
          /\ subs' = subs
          /\ dash'.error = (IF variant = "legacy" THEN MsgValidationLegacy
                                                  ELSE MsgValidationLater)
          /\ dash' = [dash EXCEPT !.error = dash'.error]]_vars

\* The validation text is shown over the rows of an earlier report.
C2_Witness ==
    /\ view = "dashboard"
    /\ dash.error \in {MsgValidationLegacy, MsgValidationLater}
    /\ dash.products # <<>>
    /\ dash.dateTo = ""
    /\ ~dash.loading

Quantity(row) == IF variant = "legacy" THEN row.quantitySales ELSE row.quantity

ResponseRows(response) ==
    IF variant = "legacy" THEN response.products ELSE MapItems(response.data)

\* s is t with its elements in another order.
IsPermutation(s, t) ==
    /\ Len(s) = Len(t)
    /\ \E f \in [1..Len(s) -> 1..Len(s)] :
         /\ \A i, j \in 1..Len(s) : i # j => f[i] # f[j]
         /\ \A i \in 1..Len(s) : s[i] = t[f[i]]

NonIncreasing(s) == \A i \in 1..(Len(s) - 1) : Quantity(s[i]) >= Quantity(s[i + 1])

\* C3: when a report request of the mounted view resolves, the product list
\* stored is a permutation of the rows of the response in which no row is
\* followed by one of greater quantity.
C3_SortedPermutation ==
    [][\A r \in inflight : \A response \in ReportResponses :
          (SalesResolved(r, response) /\ Mounted(r))
          => /\ IsPermutation(dash'.products, ResponseRows(response))
             /\ NonIncreasing(dash'.products)]_vars

\* The rows of quantities 5, 9, 1 are stored as 9, 5, 1.
C3_Witness ==
    /\ Len(dash.products) = 3
    /\ Quantity(dash.products[1]) = 9
    /\ Quantity(dash.products[2]) = 5
    /\ Quantity(dash.products[3]) = 1
    /\ dash.products[1].productId = 2
    /\ subs[1].reportOk

DigitValue(c) == CASE c = "0" -> 0 [] c = "1" -> 1 [] c = "2" -> 2 [] c = "3" -> 3
                   [] c = "4" -> 4 [] c = "5" -> 5 [] c = "6" -> 6 [] c = "7" -> 7
                   [] c = "8" -> 8 [] c = "9" -> 9

DigitChars == {"0", "1", "2", "3", "4", "5", "6", "7", "8", "9"}

RECURSIVE DigitsValue(_)
DigitsValue(t) ==
    IF t = <<>> THEN 0 ELSE 10 * DigitsValue(SubSeq(t, 1, Len(t) - 1)) + DigitValue(t[Len(t)])

\* t reads d.dd with at least one digit before the point and two after it.
IsFixed2(t) ==
    /\ Len(t) >= 4
    /\ t[Len(t) - 2] = "."
    /\ \A i \in 1..Len(t) : i # Len(t) - 2 => t[i] \in DigitChars

\* The number of hundredths such a text denotes.
Hundredths(t) ==
    100 * DigitsValue(SubSeq(t, 1, Len(t) - 3)) + DigitsValue(SubSeq(t, Len(t) - 1, Len(t)))

\* C4: the average price shown is the text "0" when totalUnits is 0;
\* otherwise it is a text with two decimals that denotes the hundredth
\* nearest to totalSales / totalUnits (123.4 over 10 units reads 12.34).
C4_AveragePrice ==
    SummaryShown(dash) =>
        /\ dash.totalUnits = 0 => AveragePrice(dash) = <<"0">>
        /\ dash.totalUnits # 0 =>
             /\ IsFixed2(AveragePrice(dash))
             /\ 2 * Abs(Hundredths(AveragePrice(dash)) * dash.totalUnits - dash.totalSales)
                  <= dash.totalUnits
        /\ (dash.totalSales = 12340 /\ dash.totalUnits = 10) =>
             AveragePrice(dash) = <<"1", "2", ".", "3", "4">>

\* 20.00 over 3 units is shown, rounded up to 6.67.
C4_Witness ==
    /\ SummaryShown(dash)
    /\ dash.totalSales = 2000
    /\ dash.totalUnits = 3
    /\ AveragePrice(dash) = <<"6", ".", "6", "7">>

ReportCells(d) == <<d.products, d.totalSales, d.totalUnits, d.inventory, d.saleId>>

\* C5: a submission whose report request fails leaves products, totals,
\* inventory and saleId as they were: the click does not change them, no
\* step changes them while the report request is in flight, and the rejection
\* changes nothing of the mounted view but the error text, which becomes the
\* generic message, and the loading flag, which is lowered.
C5_FailureKeepsReport ==
    [][/\ ClickFetchSales => ReportCells(dash') = ReportCells(dash)
       /\ \A r \in inflight :
            /\ (r.op = "sales" /\ Mounted(r) /\ inst' = inst /\ r \in inflight')
                   => ReportCells(dash') = ReportCells(dash)
            /\ SalesRejected(r) =>
                   /\ ReportCells(dash') = ReportCells(dash)
                   /\ Mounted(r) => /\ dash'.error = MsgSalesError
                                    /\ dash' = [dash EXCEPT !.error = MsgSalesError,
                                                            !.loading = FALSE]
                   /\ ~Mounted(r) => dash' = dash]_vars

\* The report request of the latest submission failed with rows of an earlier
\* report on display.
C5_Witness ==
    /\ view = "dashboard"
    /\ Len(subs) = 2
    /\ subs[2].returned /\ ~subs[2].reportOk
    /\ dash.products # <<>>
    /\ dash.error = MsgSalesError

\* C6: a mounted dashboard has its profile or a profile request in flight;
\* when the profile request is rejected the login page is shown next; when
\* it resolves the page shown stays and the mounted dashboard stores the
\* profile.
C6_ProfileOrLogin ==
    /\ [](view = "dashboard" =>
            \/ dash.me # NoUser
            \/ \E r \in inflight : r.op = "me" /\ Mounted(r) /\ r.url = "/me")
    /\ [][\A r \in inflight :
            /\ ProfileRejected(r) => view' = "login"
            /\ \A user \in Users :
                 ProfileResolved(r, user)
                 => /\ view' = view /\ inst' = inst
                    /\ Mounted(r) => dash'.me = user]_vars

\* The profile request of the dashboard was rejected and the login page is up.
C6_Witness ==
    /\ view = "login"
    /\ inst > 1
    /\ Truthy(token)
    /\ \A r \in inflight : r.op # "me"
    /\ \E r \in inflight : r.op = "conciliations" /\ r.by = inst - 1

\* C7: a request leaves with the header "Authorization: Bearer <token>" of
\* the token in localStorage at that moment when there is one, and with no
\* Authorization header when there is none.
HeaderMatches(r, tok) ==
    /\ Truthy(tok) <=> r.Authorization # Null
    /\ Truthy(tok) => r.Authorization = "Bearer " \o tok

C7_BearerHeader ==
    /\ \A r \in inflight : HeaderMatches(r, token)
    /\ [][\A r \in inflight' \ inflight : HeaderMatches(r, token')]_vars

\* The dashboard mounted by a login sends its requests with the new token.
C7_Witness ==
    /\ token = "tokB"
    /\ \E r \in inflight : r.op = "me" /\ r.Authorization = "Bearer tokB"
    /\ \E r \in inflight : r.Authorization = Null

\* C8: the stored token changes only when a login request resolves, to the
\* access_token of the response; every other step leaves it as it is, and a
\* stored token is present in every later state.
C8_TokenOnlyByLogin ==
    [][/\ token' # token =>
             \E r \in inflight : \E t \in Tokens : LoginResolved(r, t) /\ token' = t
       /\ \A r \in inflight :
             (\/ LoginRejected(r) \/ ProfileRejected(r)
              \/ RegisterResolved(r) \/ RegisterRejected(r)
              \/ r.op \in DashboardOps /\ r \notin inflight') => token' = token
       /\ Truthy(token) => Truthy(token')]_vars

\* A second login replaced the token; a request of the earlier dashboard is
\* still in flight with the token of its time.
C8_Witness ==
    /\ token = "tokB"
    /\ view = "dashboard"
    /\ inst >= 3
    /\ \E r \in inflight : r.op = "conciliations" /\ r.Authorization = "Bearer tokA"

ReportOps == {"sales", "inventory"}

\* C9: a submission sends one report request, and one inventory request only
\* after its report request has resolved; what it sent never changes once it
\* has returned, a rejection ends it with nothing more sent, a report request
\* enters the flight only by a click and an inventory request only as the
\* report request of the same submission resolves.
C9_ReportThenInventory ==
    /\ [](\A n \in 1..Len(subs) :
            /\ subs[n].report = 1
            /\ subs[n].inventory <= 1
            /\ subs[n].inventory = 1 => subs[n].reportOk
            /\ subs[n].returned =>
                 \A r \in inflight : r.op \in ReportOps => r.sub # n)
    /\ [][/\ \A n \in 1..Len(subs) : subs[n].returned => subs'[n] = subs[n]
          /\ \A r \in inflight :
                (r.op \in ReportOps /\ Rejected(r))
                => /\ subs'[r.sub].returned
                   /\ subs'[r.sub].report = subs[r.sub].report
                   /\ subs'[r.sub].inventory = subs[r.sub].inventory
                   /\ \A q \in inflight' : q.op \in ReportOps => q \in inflight
          /\ \A q \in inflight' \ inflight :
                /\ q.op = "sales" => ClickFetchSales /\ q.sub = Len(subs) + 1
                /\ q.op = "inventory" =>
                     \E r \in inflight \ inflight' :
                        r.op = "sales" /\ r.sub = q.sub /\ subs'[q.sub].reportOk]_vars

\* One submission ended by a rejected report request with no inventory
\* request, another by its inventory response.
C9_Witness ==
    /\ Len(subs) = 2
    /\ subs[1].returned /\ ~subs[1].reportOk /\ subs[1].inventory = 0
    /\ subs[2].returned /\ subs[2].reportOk /\ subs[2].inventory = 1

MountedReportRequests == {r \in inflight : r.op \in ReportOps /\ Mounted(r)}

\* C10 as stated: the submit control stays enabled while a report request of
\* the mounted dashboard is in flight.
C10_Original ==
    \A r \in inflight : (view = "dashboard" /\ r.op = "sales" /\ Mounted(r)) => ~SubmitDisabled

\* C10: while a report or inventory request of the mounted dashboard is in
\* flight the submit control is disabled, so the mounted dashboard has at
\* most one such request in flight and it belongs to the latest submission;
\* the displayed products and totals change only by a mount or by the
\* response to that latest submission.
C10_GuardedSubmission ==
    /\ [](view = "dashboard" =>
            /\ Cardinality(MountedReportRequests) <= 1
            /\ \A r \in MountedReportRequests : SubmitDisabled /\ r.sub = Len(subs))
    /\ [][<<dash'.products, dash'.totalSales, dash'.totalUnits>>
             # <<dash.products, dash.totalSales, dash.totalUnits>>
          => \/ inst' # inst
             \/ \E r \in inflight \ inflight' :
                  r.op = "sales" /\ Mounted(r) /\ r.sub = Len(subs)]_vars

\* A second submission of the same dashboard is in flight after the first
\* has returned, with the first report on display.
C10_Witness ==
    /\ view = "dashboard"
    /\ Len(subs) = 2
    /\ subs[1].returned /\ subs[1].reportOk
    /\ dash.products # <<>>
    /\ \E r \in inflight : r.op = "sales" /\ r.sub = 2 /\ Mounted(r)

MountedRequests == {r \in inflight : r.op \in DashboardOps /\ Mounted(r)}

\* C11 as stated: at most one request of the mounted dashboard is in flight.
C11_Original == view = "dashboard" => Cardinality(MountedRequests) <= 1

\* C11: only the two requests of handleFetchSales are sequenced: of the
\* mounted dashboard at most one profile request is in flight, and the report
\* request and the inventory request of a submission are never in flight
\* together, the inventory request being there only with the report
\* resolved.  The profile request, the conciliation lists and the report
\* requests are not sequenced with each other.
C11_HandlerSequential ==
    view = "dashboard" =>
        /\ Cardinality({r \in MountedRequests : r.op = "me"}) <= 1
        /\ \A r \in MountedRequests : \A q \in MountedRequests :
              (r.op = "sales" /\ q.op = "inventory") => r.sub # q.sub
        /\ \A q \in MountedRequests :
              q.op = "inventory" => subs[q.sub].reportOk /\ ~subs[q.sub].returned

\* The profile request, the conciliation list of the mount and a report
\* request of the same dashboard are in flight together.
C11_Witness ==
    /\ view = "dashboard"
    /\ \E r \in MountedRequests : r.op = "me"
    /\ \E r \in MountedRequests : r.op = "conciliations"
    /\ \E r \in MountedRequests : r.op = "sales"

ErrorTexts == {MsgSalesError, MsgSaveError, MsgLoginError, MsgRegisterError}

\* What the rejection of r shows on the page that awaits it.
ShownAfterRejection(r) ==
    /\ (r.op \in ReportOps /\ Rejected(r)) => dash'.error = MsgSalesError
    /\ SaveRejected(r) => dash'.error = MsgSaveError
    /\ LoginRejected(r) => loginPg'.error = MsgLoginError
    /\ RegisterRejected(r) => regPg'.error = MsgRegisterError

\* C12 as stated: the rejection of any request but the profile request sets
\* an error text in the page that awaits it, the conciliation list included.
C12_Original ==
    [][\A r \in inflight :
          Mounted(r) => /\ ShownAfterRejection(r)
                        /\ ConciliationsRejected(r) => dash'.error \in ErrorTexts]_vars

\* C12: the rejection of a report, inventory, create, refresh, login or
\* register request sets the fixed error text of its handler in the page that
\* awaits it; the rejection of the conciliation list of the effects is only
\* logged and changes nothing of the page; a page no longer mounted shows
\* nothing.
C12_FailureTexts ==
    [][\A r \in inflight :
          /\ Mounted(r) => ShownAfterRejection(r)
          /\ ConciliationsRejected(r) => <<dash', loginPg', regPg'>> = <<dash, loginPg, regPg>>
          /\ (~Mounted(r) /\ r.op # "me" /\ r.op # "login" /\ r.op # "register"
                /\ r \notin inflight')
               => <<dash', loginPg', regPg', view'>> = <<dash, loginPg, regPg, view>>]_vars

\* The save handler failed on a dashboard that shows a report and awaits no
\* conciliation list.
C12_Witness ==
    /\ view = "dashboard"
    /\ dash.error = MsgSaveError
    /\ dash.products # <<>>
    /\ \A r \in MountedRequests : r.op \notin {"conciliations", "createConciliation", "updated"}

\* C13: a create request is sent only by the earlier page with a saleId
\* on display, and carries it; that saleId is the one of the latest report
\* response the mounted page has received; when the create request resolves
\* a conciliation-list request follows, and its result replaces the list of
\* the mounted page.  In the later page a call of the handler changes nothing
\* and no create or refresh request is ever in flight.
C13_SaveConciliation ==
    /\ [](variant = "later" => \A r \in inflight : r.op \notin SaveOps)
    /\ [][/\ \A q \in inflight' \ inflight :
               q.op = "createConciliation"
               => /\ ClickSaveConciliation
                  /\ variant = "legacy"
                  /\ TruthyNum(dash.saleId)
                  /\ q.params = <<dash.saleId>>
                  /\ \E n \in 1..Len(subs) : subs[n].reportOk
          /\ dash'.saleId # dash.saleId =>
               \/ inst' # inst
               \/ \E r \in inflight : \E response \in SalesResponses :
                    /\ SalesResolved(r, response) /\ Mounted(r)
                    /\ dash'.saleId = response.saleId
          /\ \A r \in inflight :
               /\ CreateResolved(r) =>
                    \E q \in inflight' \ inflight :
                       q.op = "updated" /\ q.url = "/conciliations" /\ q.by = r.by /\ q.sub = r.sub
               /\ \A data \in ConciliationLists :
                    (UpdatedResolved(r, data) /\ Mounted(r)) => dash'.conciliations = data
          /\ (ClickSaveConciliation /\ variant = "later") => UNCHANGED vars]_vars

\* The refresh that follows a create request is in flight on the page whose
\* second report set the saleId.
C13_Witness ==
    /\ view = "dashboard"
    /\ Len(subs) = 2 /\ subs[1].reportOk /\ subs[2].reportOk
    /\ dash.saleId = 2
    /\ \E r \in inflight : r.op = "updated" /\ Mounted(r)

\* C14: a dashboard that mounts sends a conciliation-list request, and a
\* report response that changes the saleId of the mounted dashboard is
\* followed, in the step that handles it, by a new conciliation-list request
\* of that dashboard.
C14_ConciliationsOnSaleId ==
    /\ view = "dashboard" =>
          \E q \in inflight : q.op = "conciliations" /\ q.url = "/conciliations" /\ Mounted(q)
    /\ [][/\ (inst' # inst /\ view' = "dashboard") =>
               \E q \in inflight' \ inflight : q.op = "conciliations" /\ q.by = inst'
          /\ \A r \in inflight : \A response \in SalesResponses :
               (SalesResolved(r, response) /\ dash'.saleId # dash.saleId)
               => \E q \in inflight' \ inflight :
                     q.op = "conciliations" /\ q.url = "/conciliations" /\ q.by = inst]_vars

\* The list request of the second report's saleId is in flight.
C14_Witness ==
    /\ view = "dashboard"
    /\ dash.saleId = 2
    /\ Len(subs) = 2 /\ subs[1].reportOk
    /\ \E q \in inflight : q.op = "conciliations" /\ q.sub = 2 /\ Mounted(q)

\* C15: on the mounted dashboard loading is true exactly while a report or
\* inventory request of a submission is awaited; a click that passes the
\* validation raises it, a click that fails it leaves it as it is, and every
\* end of the handler (inventory response, report rejection, inventory
\* rejection) lowers it, so with requests that are answered it always
\* returns to false.
C15_Loading ==
    /\ [](view = "dashboard" => (dash.loading <=> MountedReportRequests # {}))
    /\ [][/\ (ClickFetchSales /\ ~Invalid(dash)) => dash'.loading
          /\ (ClickFetchSales /\ Invalid(dash)) => dash'.loading = dash.loading /\ ~dash'.loading
          /\ \A r \in inflight :
               (Mounted(r) /\ r.op \in ReportOps /\ r \notin inflight'
                  /\ \A q \in inflight' \ inflight : q.op # "inventory")
               => ~dash'.loading]_vars
    /\ (dash.loading ~> ~dash.loading)

\* A second submission has raised loading again after the first had ended
\* with a rejected inventory request.
C15_Witness ==
    /\ view = "dashboard"
    /\ dash.loading
    /\ Len(subs) = 2
    /\ subs[1].returned /\ subs[1].reportOk /\ subs[1].inventory = 1
    /\ dash.inventory = <<>>
    /\ \E r \in MountedReportRequests : r.sub = 2

\* C16 as stated: at most one report request and at most one inventory
\* request are in flight.
C16_Original ==
    /\ Cardinality({r \in inflight : r.op = "sales"}) <= 1
    /\ Cardinality({r \in inflight : r.op = "inventory"}) <= 1

\* C16: of each dashboard instance at most one report or inventory request
\* is in flight, and a report request enters the flight only when none of
\* the mounted dashboard is there; requests of dashboards no longer mounted
\* may be in flight beside it.
C16_OnePerInstance ==
    /\ [](\A r \in inflight : \A q \in inflight :
            (r.op \in ReportOps /\ q.op \in ReportOps /\ r.by = q.by) => r = q)
    /\ [][\A q \in inflight' \ inflight :
            q.op = "sales" =>
               /\ ~dash.loading /\ dash'.loading
               /\ \A r \in inflight : r.op \in ReportOps => r.by # q.by]_vars

\* The mounted dashboard awaits its report while the report request of an
\* earlier dashboard is still in flight.
C16_Witness ==
    /\ view = "dashboard"
    /\ dash.loading
    /\ \E r \in inflight : r.op = "sales" /\ Mounted(r)
    /\ \E r \in inflight : r.op = "sales" /\ ~Mounted(r)

\* C17: in the earlier page a mounted dashboard with its profile loaded has
\* the supplierIdTecopos of the profile as supplierId, whatever was typed
\* before, and the input no longer changes it; a report request sent with
\* the profile loaded carries that identifier, and none is sent when the
\* profile has none.
C17_ProfileSupplier ==
    /\ []((variant = "legacy" /\ view = "dashboard" /\ dash.me # NoUser)
            => dash.supplierId = dash.me.supplierIdTecopos)
    /\ [][/\ \A v \in SupplierInputs : SetSupplierId(v) => dash.me = NoUser
          /\ \A r \in inflight : \A user \in Users :
               (variant = "legacy" /\ ProfileResolved(r, user) /\ Mounted(r))
               => dash'.me = user /\ dash'.supplierId = user.supplierIdTecopos
          /\ \A q \in inflight' \ inflight :
               (variant = "legacy" /\ q.op = "sales" /\ dash.me # NoUser)
               => /\ TruthyNum(dash.me.supplierIdTecopos)
                  /\ q.params[3] = dash.me.supplierIdTecopos]_vars

\* A report request with the identifier of the profile is in flight.
C17_Witness ==
    /\ variant = "legacy"
    /\ view = "dashboard"
    /\ dash.me # NoUser
    /\ dash.me.supplierIdTecopos = 7
    /\ \E r \in inflight : r.op = "sales" /\ Mounted(r) /\ r.params[3] = 7

====
